---------------------------- MODULE Spec2Model ----------------------------
(***************************************************************************)
(* A model of proxy.py: the WebRTC <-> GenAI audio proxy.                  *)
(*                                                                         *)
(* One RTCConnection per offer.  Every coroutine is cut at its awaits: an  *)
(* action is the code a task runs between two suspension points of the     *)
(* asyncio loop.  The transport (aiortc) and the AI session (google-genai) *)
(* are the environment: their events and results are inputs.               *)
(*                                                                         *)
(* Audio bytes are modelled by their count (no claim reads their value);   *)
(* the running timestamp, a float the code advances by rate * 0.02, is     *)
(* kept exactly in fiftieths of a sample (timestamp * 50).                 *)
(***************************************************************************)
EXTENDS Integers, Sequences, FiniteSets

---------------------------------------------------------------------------
(* Bounds of the model *)

NumConns == 2
MaxBytes == 4
FewBytes == 2
MaxHandlers == 1
MaxFaults == 1
MaxTracks == 2
MaxMessages == 2
MaxTexts == 2
MaxChunks == 2

(* AUDIO_PTIME = 0.02 s = 1 / PTIME_DEN *)
PTIME_DEN == 50
(* s16 mono: bytes per sample, the 2 of len(buffer) / 2 and samples*2 *)
SAMPLE_BYTES == 2

Conns == 1 .. NumConns

(* Sample rates an AI response may declare in its mime type: two for which *)
(* rate * 0.02 is whole and one (like 11025) for which it is not.          *)
Rates == {50, 75, 100}

(* A response of the AI session: response.data is None (a server message), *)
(* or audio: a payload of len bytes and the declared rate                  *)
Responses ==
  {[audio |-> FALSE, rate |-> 0, len |-> 0]}
    \cup {[audio |-> TRUE, rate |-> r, len |-> n] : r \in Rates, n \in 1 .. MaxBytes}

VARIABLES
  connections,     \* the module-level set of RTCConnection objects
  ho,              \* position of offer()/handle_offer() per connection
  run,             \* position of the _run() task per connection
  pcClosed,        \* self.pc has been closed
  genai_session,   \* self.genai_session: "unset" (no such attribute), "open", "closed"
  hasTrack,        \* self.recv_track and self.send_track are set
  ingress,         \* position of the run_recv_track() task
  buffer,          \* len(buffer) of run_send_track
  sample_rate,     \* sample_rate of run_send_track (of the response in hand)
  timestamp,       \* timestamp of run_send_track, times PTIME_DEN
  queue,           \* self.send_track.queue
  recvPending,     \* the transport is inside SendingTrack.recv()
  produced,        \* history: the frames put on the queue, in order
  delivered,       \* history: the frames SendingTrack.recv() returned, in order
  handlers,        \* on_connectionstatechange tasks suspended inside close()
  closeLog,        \* history: the outcome of every close() call that ended
  sd,              \* position of on_shutdown()
  sdClose,         \* position of on_shutdown's close() call per connection
  budget,          \* what the environment may still do: offers to make, audio
                   \* bytes the AI session may send; and up to which count
                   \* the histories below count late tracks, server messages,
                   \* text messages and early chunks
  faultsLeft,      \* how often a collaborator's close() may still raise
  sleeps,          \* history: asyncio.sleep(AUDIO_PTIME) calls that returned
  tracksAdded,     \* history: how often on_track bound a track (lines 89-92)
  tracksIgnored,   \* history: tracks on_track returned from at line 86
  serverMessages,  \* history: responses with response.data None received
  textsGot,        \* history: data-channel messages on_message was called with
  textsSent,       \* history: of these, the ones passed to genai_session.send
  earlySends       \* history: run_recv_track chunks in hand with no session set

vars ==
  << connections, ho, run, pcClosed, genai_session, hasTrack,
     ingress, buffer, sample_rate, timestamp, queue, recvPending, produced,
     delivered, handlers, closeLog, sd, sdClose, budget,
     faultsLeft, sleeps, tracksAdded, tracksIgnored, serverMessages,
     textsGot, textsSent, earlySends >>

lifeVars == << connections, ho, run, pcClosed, genai_session >>
trackVars == << hasTrack, ingress >>
framerVars == << buffer, sample_rate, timestamp >>
queueVars == << queue, recvPending, produced, delivered >>
closeVars == << handlers, closeLog, faultsLeft >>
sdVars == << sd, sdClose >>
histVars ==
  << sleeps, tracksAdded, tracksIgnored, serverMessages, textsGot, textsSent,
     earlySends >>

---------------------------------------------------------------------------
(* Pure helpers *)

(* samples = int(sample_rate * AUDIO_PTIME) *)
SamplesPerFrame(rate) == rate \div PTIME_DEN

(* sample_rate * AUDIO_PTIME, the float added to timestamp, times PTIME_DEN *)
TimestampStep(rate) == rate

(* len(buffer) / 2 >= samples *)
HasFullFrameStrict(len, rate) == len > SAMPLE_BYTES * SamplesPerFrame(rate)
HasFullFrame(len, rate) == len >= SAMPLE_BYTES * SamplesPerFrame(rate)

(* asyncio.Queue: put appends, get takes from the left *)
QueuePutFront(q, f) == << f >> \o q
QueuePut(q, f) == Append(q, f)
QueueGet(q) == Head(q)
QueueRest(q) == Tail(q)

(* connections.discard(self), line 164 *)
UnregisterNothing(conns, c) == conns
Unregister(conns, c) == conns \ {c}

(* if self.recv_track: return, line 85 *)
TrackTakenNever(c) == FALSE
TrackTaken(c) == hasTrack[c]

(* response.data is None, line 127 *)
HasAudioAlways(resp) == TRUE
HasAudio(resp) == resp.audio

(* Where run_send_track is after line 146: in the sleep of line 147 *)
PutThenGoOn == "receiving"
PutThenSleep == "pacing"

(* A history counter counts up to its cap *)
Note(n, cap) == IF n < cap THEN n + 1 ELSE n

(* self.pc is set (truthy) from handle_offer line 45 on *)
PcSet(c) == ho[c] \notin {"none", "reading"}

(* The handlers of _run are registered once the task has started *)
HandlersOn(c) == run[c] \notin {"none", "scheduled"}

(* A collaborator's close() may raise while the fault budget lasts *)
FaultChoices == IF faultsLeft > 0 THEN BOOLEAN ELSE {FALSE}

---------------------------------------------------------------------------
(* RTCConnection.close(), lines 167-171.                                   *)
(*   if self.pc: await self.pc.close()                                     *)
(*   if self.genai_session: await self.genai_session.close()               *)
(* The class declares recv_track, send_track and pc (lines 37-39) but not  *)
(* genai_session: reading it before _run line 155 has set it raises        *)
(* AttributeError.  There is no try/except: an exception of pc.close()     *)
(* leaves close() before the session is looked at.                         *)

(* What an ended close() call leaves in closeLog: how its pc.close() and    *)
(* its session.close() went; first: no call of close() on the connection   *)
(* had ended before; open: the AI session was open when the call ended or  *)
(* reached its session.close()                                             *)
CloseRec(c, first, pcRes, sessRes) ==
  [first |-> first, pc |-> pcRes, sess |-> sessRes,
   open |-> genai_session[c] = "open"]

CloseRaised(r) == r.pc = "failed" \/ r.sess \in {"attrerror", "failed"}

(* Lines 170-171, run by a call whose pc part went pcRes; res is how the   *)
(* call ends                                                               *)
CloseTail(c, first, pcRes, f, res) ==
  IF genai_session[c] = "unset"
  THEN /\ f = FALSE
       /\ res = "raised"
       /\ closeLog' = [closeLog EXCEPT ![c] =
                         @ \cup {CloseRec(c, first, pcRes, "attrerror")}]
       /\ UNCHANGED << genai_session, faultsLeft >>
  ELSE IF f
       THEN /\ res = "raised"
            /\ closeLog' = [closeLog EXCEPT ![c] =
                              @ \cup {CloseRec(c, first, pcRes, "failed")}]
            /\ faultsLeft' = faultsLeft - 1
            /\ UNCHANGED genai_session
       ELSE /\ res = "done"
            /\ genai_session' = [genai_session EXCEPT ![c] = "closed"]
            /\ closeLog' = [closeLog EXCEPT ![c] =
                              @ \cup {CloseRec(c, first, pcRes, "ok")}]
            /\ UNCHANGED faultsLeft

(* A call of close() up to its first suspension (the await of            *)
(* pc.close()) or, when there is none, to its end                          *)
CloseCall(c, f, res) ==
  LET first == closeLog[c] = {} IN
  /\ IF PcSet(c)
     THEN IF f
          THEN /\ res = "raised"
               /\ closeLog' = [closeLog EXCEPT ![c] =
                    @ \cup {CloseRec(c, first, "failed", "notreached")}]
               /\ faultsLeft' = faultsLeft - 1
               /\ UNCHANGED << pcClosed, genai_session >>
          ELSE /\ res = "mid"
               /\ pcClosed' = [pcClosed EXCEPT ![c] = TRUE]
               /\ UNCHANGED << genai_session, closeLog, faultsLeft >>
     ELSE /\ CloseTail(c, first, "skipped", f, res)
          /\ UNCHANGED pcClosed

(* The rest of a call that was suspended in pc.close() *)
CloseResume(c, f, res) ==
  /\ CloseTail(c, closeLog[c] = {}, "ok", f, res)
  /\ UNCHANGED pcClosed

---------------------------------------------------------------------------
Blank == [c \in Conns |-> 0]

InitWatch(offers, bytes, faults, tracks, msgs, texts, chunks) ==
  /\ connections = {}
  /\ ho = [c \in Conns |-> "none"]
  /\ run = [c \in Conns |-> "none"]
  /\ pcClosed = [c \in Conns |-> FALSE]
  /\ genai_session = [c \in Conns |-> "unset"]
  /\ hasTrack = [c \in Conns |-> FALSE]
  /\ ingress = [c \in Conns |-> "none"]
  /\ buffer = Blank
  /\ sample_rate = Blank
  /\ timestamp = Blank
  /\ queue = [c \in Conns |-> << >>]
  /\ recvPending = [c \in Conns |-> FALSE]
  /\ produced = [c \in Conns |-> << >>]
  /\ delivered = [c \in Conns |-> << >>]
  /\ handlers = Blank
  /\ closeLog = [c \in Conns |-> {}]
  /\ sd = "idle"
  /\ sdClose = [c \in Conns |-> "none"]
  /\ budget = [offers |-> offers, bytes |-> bytes, tracks |-> tracks,
               msgs |-> msgs, texts |-> texts, chunks |-> chunks]
  /\ faultsLeft = faults
  /\ sleeps = Blank
  /\ tracksAdded = Blank
  /\ tracksIgnored = Blank
  /\ serverMessages = Blank
  /\ textsGot = Blank
  /\ textsSent = Blank
  /\ earlySends = Blank

(* The histories of late tracks, messages and chunks are not kept *)
InitWith(offers, bytes, faults) == InitWatch(offers, bytes, faults, 0, 0, 0, 0)

(* One call, collaborators whose close() does not raise *)
Init == InitWith(1, MaxBytes, 0)

---------------------------------------------------------------------------
(* offer(), lines 174-177, and handle_offer(), lines 41-57 *)

(* offer: the connection is registered; handle_offer awaits request.text() *)
Offer(c) ==
  /\ sd = "idle"
  /\ budget.offers > 0
  /\ ho[c] = "none"
  /\ \A d \in Conns : d < c => ho[d] # "none"
  /\ connections' = connections \cup {c}
  /\ ho' = [ho EXCEPT ![c] = "reading"]
  /\ budget' = [budget EXCEPT !.offers = @ - 1]
  /\ UNCHANGED << histVars, run, pcClosed, genai_session, trackVars,
                  framerVars, queueVars, closeVars, sdVars >>

(* Lines 43-49: self.pc is created, _run is scheduled, negotiation awaited *)
CreatePeer(c) ==
  /\ ho[c] = "reading"
  /\ ho' = [ho EXCEPT ![c] = "negotiating"]
  /\ run' = [run EXCEPT ![c] = "scheduled"]
  /\ UNCHANGED << histVars, connections, pcClosed, genai_session,
                  trackVars, framerVars, queueVars, closeVars, sdVars, budget >>

(* Lines 49-57: the description calls succeed and the answer is returned *)
NegotiateOk(c) ==
  /\ ho[c] = "negotiating"
  /\ ~ pcClosed[c]
  /\ ho' = [ho EXCEPT ![c] = "answered"]
  /\ UNCHANGED << histVars, connections, run, pcClosed, genai_session,
                  trackVars, framerVars, queueVars, closeVars, sdVars, budget >>

(* Lines 49-52: a description call raises; the exception leaves handle_offer *)
NegotiateFail(c) ==
  /\ ho[c] = "negotiating"
  /\ ho' = [ho EXCEPT ![c] = "failed"]
  /\ UNCHANGED << histVars, connections, run, pcClosed, genai_session,
                  trackVars, framerVars, queueVars, closeVars, sdVars, budget >>

---------------------------------------------------------------------------
(* _run(), lines 59-165 *)

(* Lines 60-151: the handlers are registered, live.connect is awaited *)
RunStart(c) ==
  /\ run[c] = "scheduled"
  /\ run' = [run EXCEPT ![c] = "connecting"]
  /\ UNCHANGED << histVars, connections, ho, pcClosed, genai_session,
                  trackVars, framerVars, queueVars, closeVars, sdVars, budget >>

(* Lines 153-158, 122-126: the session is stored, run_send_track starts *)
ConnectOk(c) ==
  /\ run[c] = "connecting"
  /\ run' = [run EXCEPT ![c] = "receiving"]
  /\ genai_session' = [genai_session EXCEPT ![c] = "open"]
  /\ buffer' = [buffer EXCEPT ![c] = 0]
  /\ timestamp' = [timestamp EXCEPT ![c] = 0]
  /\ UNCHANGED << histVars, connections, ho, pcClosed, trackVars,
                  sample_rate, queueVars, closeVars, sdVars, budget >>

(* An exception leaves the try block (lines 150-163): the async with closes *)
(* the session it opened, the except logs, and close() is called and runs  *)
(* to its await of pc.close() (self.pc is set since before _run exists)    *)
RunExit(c, f) ==
  LET first == closeLog[c] = {}
      sess == IF genai_session[c] = "open" THEN "closed" ELSE genai_session[c]
  IN
  /\ genai_session' = [genai_session EXCEPT ![c] = sess]
  /\ IF f
     THEN /\ run' = [run EXCEPT ![c] = "raised"]
          /\ closeLog' = [closeLog EXCEPT ![c] =
               @ \cup {[first |-> first, pc |-> "failed", sess |-> "notreached",
                        open |-> FALSE]}]
          /\ faultsLeft' = faultsLeft - 1
          /\ UNCHANGED pcClosed
     ELSE /\ run' = [run EXCEPT ![c] = "closing"]
          /\ pcClosed' = [pcClosed EXCEPT ![c] = TRUE]
          /\ UNCHANGED << closeLog, faultsLeft >>

(* live.connect raises *)
ConnectFail(c) ==
  /\ run[c] = "connecting"
  /\ \E f \in FaultChoices : RunExit(c, f)
  /\ UNCHANGED << histVars, connections, ho, trackVars, framerVars,
                  queueVars, handlers, sdVars, budget >>

(* Lines 137-147 for one turn of the while loop, entered with len bytes in *)
(* the buffer: a frame is cut, stamped and put, and the task sleeps; or    *)
(* the loop is left for the next response                                  *)
FrameStep(c, len, rate) ==
  LET samples == SamplesPerFrame(rate)
      ts == timestamp[c] + TimestampStep(rate)
      frame == [pts |-> ts, samples |-> samples, rate |-> rate]
  IN
  /\ sample_rate' = [sample_rate EXCEPT ![c] = rate]
  /\ IF HasFullFrame(len, rate)
     THEN /\ buffer' = [buffer EXCEPT ![c] = len - SAMPLE_BYTES * samples]
          /\ timestamp' = [timestamp EXCEPT ![c] = ts]
          /\ IF hasTrack[c]
             THEN /\ queue' = [queue EXCEPT ![c] = QueuePut(@, frame)]
                  /\ produced' = [produced EXCEPT ![c] = Append(@, frame)]
                  /\ run' = [run EXCEPT ![c] = PutThenSleep]
                  /\ UNCHANGED << genai_session, pcClosed, closeLog,
                                  faultsLeft >>
             ELSE \* self.send_track is None: AttributeError at line 146
                  /\ \E f \in FaultChoices : RunExit(c, f)
                  /\ UNCHANGED << queue, produced >>
     ELSE \* back to line 126, the next response is awaited
          /\ buffer' = [buffer EXCEPT ![c] = len]
          /\ run' = [run EXCEPT ![c] = "receiving"]
          /\ UNCHANGED << timestamp, queue, produced, genai_session,
                          pcClosed, closeLog, faultsLeft >>

(* Lines 126-147: the next response of the turn arrives *)
EgressResponse(c, resp) ==
  /\ run[c] = "receiving"
  /\ genai_session[c] = "open"
  /\ resp.len <= budget.bytes
  /\ budget' = [budget EXCEPT !.bytes = @ - resp.len]
  /\ IF HasAudio(resp)
     THEN FrameStep(c, buffer[c] + resp.len, resp.rate)
     ELSE \* lines 127-129: logged, on to the next response
          UNCHANGED << framerVars, queue, produced, run, genai_session,
                       pcClosed, closeLog, faultsLeft >>
  /\ serverMessages' = [serverMessages EXCEPT ![c] =
                          IF resp.audio THEN @ ELSE Note(@, budget.msgs)]
  /\ UNCHANGED << connections, ho, trackVars, recvPending,
                  delivered, handlers, sdVars, sleeps, tracksAdded,
                  tracksIgnored, textsGot, textsSent, earlySends >>

(* Line 147: the sleep ends and the while condition is tested again *)
PaceWake(c) ==
  /\ run[c] = "pacing"
  /\ FrameStep(c, buffer[c], sample_rate[c])
  /\ sleeps' = [sleeps EXCEPT ![c] = @ + 1]
  /\ UNCHANGED << connections, ho, trackVars, recvPending,
                  delivered, handlers, sdVars, budget, tracksAdded,
                  tracksIgnored, serverMessages, textsGot, textsSent,
                  earlySends >>

(* Line 126: receiving from a session that has been closed raises *)
EgressSessionClosed(c) ==
  /\ run[c] = "receiving"
  /\ genai_session[c] = "closed"
  /\ \E f \in FaultChoices : RunExit(c, f)
  /\ UNCHANGED << histVars, connections, ho, trackVars, framerVars,
                  queueVars, handlers, sdVars, budget >>

(* Line 126: receiving from the open session raises (the session failed) *)
EgressRecvError(c) ==
  /\ run[c] = "receiving"
  /\ genai_session[c] = "open"
  /\ \E f \in FaultChoices : RunExit(c, f)
  /\ UNCHANGED << histVars, connections, ho, trackVars, framerVars,
                  queueVars, handlers, sdVars, budget >>

(* Lines 163-165: close() goes on after pc.close(); if it returns, the     *)
(* connection leaves the registry; if it raises, _run ends there           *)
RunCloseFinish(c) ==
  /\ run[c] = "closing"
  /\ \E f \in FaultChoices, res \in {"done", "raised"} :
       /\ CloseResume(c, f, res)
       /\ run' = [run EXCEPT ![c] = res]
       /\ connections' = IF res = "done" THEN Unregister(connections, c)
                                          ELSE connections
  /\ UNCHANGED << histVars, ho, trackVars, framerVars, queueVars,
                  handlers, sdVars, budget >>

---------------------------------------------------------------------------
(* The handlers _run registers, lines 67-96 *)

(* Lines 74-78: the transport reports connection state st; the handler,    *)
(* once registered, logs it and for "failed" or "closed" calls close()     *)
ConnectionStateChange(c, st) ==
  /\ PcSet(c)
  /\ handlers[c] < MaxHandlers
  /\ IF HandlersOn(c) /\ st \in {"failed", "closed"}
     THEN \E f \in FaultChoices, res \in {"mid", "raised"} :
            /\ CloseCall(c, f, res)
            /\ handlers' = [handlers EXCEPT ![c] = IF res = "mid" THEN @ + 1 ELSE @]
     ELSE UNCHANGED << pcClosed, genai_session, closeVars >>
  /\ UNCHANGED << histVars, connections, ho, run, trackVars, framerVars,
                  queueVars, sdVars,
                  budget >>

(* Lines 78, 170-171: a handler's close() goes on after pc.close() *)
HandlerCloseFinish(c) ==
  /\ handlers[c] > 0
  /\ handlers' = [handlers EXCEPT ![c] = @ - 1]
  /\ \E f \in FaultChoices, res \in {"done", "raised"} :
       CloseResume(c, f, res)
  /\ UNCHANGED << histVars, connections, ho, run, trackVars, framerVars,
                  queueVars, sdVars, budget >>

(* Lines 80-92: a track arrives; only the first audio track is taken: it  *)
(* is bound, the outbound track is created and added, run_recv_track is    *)
(* scheduled                                                               *)
OnTrack(c, kind) ==
  /\ PcSet(c)
  /\ HandlersOn(c)
  /\ ~ pcClosed[c]
  /\ IF TrackTaken(c)
     THEN /\ tracksIgnored' = [tracksIgnored EXCEPT ![c] = Note(@, budget.tracks)]
          /\ UNCHANGED << trackVars, tracksAdded >>
     ELSE IF kind = "audio"
          THEN /\ hasTrack' = [hasTrack EXCEPT ![c] = TRUE]
               /\ ingress' = [ingress EXCEPT ![c] = "running"]
               /\ tracksAdded' = [tracksAdded EXCEPT ![c] = Note(@, MaxTracks)]
               /\ UNCHANGED tracksIgnored
          ELSE UNCHANGED << trackVars, tracksAdded, tracksIgnored >>
  /\ UNCHANGED << lifeVars, framerVars, queueVars, closeVars, sdVars, budget,
                  sleeps, serverMessages, textsGot, textsSent, earlySends >>

(* Lines 67-72: a text message arrives on a data channel; on_message reads *)
(* self.genai_session (AttributeError while it is not set) and awaits its  *)
(* send, which raises on a closed session                                  *)
DataMessage(c) ==
  /\ ho[c] = "answered"
  /\ HandlersOn(c)
  /\ ~ pcClosed[c]
  /\ textsGot' = [textsGot EXCEPT ![c] = Note(@, budget.texts)]
  /\ textsSent' = [textsSent EXCEPT ![c] =
                     IF genai_session[c] = "open" THEN Note(@, budget.texts)
                                                  ELSE @]
  /\ UNCHANGED << lifeVars, trackVars, framerVars, queueVars, closeVars, sdVars,
                  budget, sleeps, tracksAdded, tracksIgnored, serverMessages,
                  earlySends >>

(* Lines 107-119: an inbound frame is received, resampled and sent to the  *)
(* session; an exception of send (no session yet, or a closed one) is      *)
(* caught, logged, and ends the loop                                       *)
IngressFrame(c) ==
  /\ ingress[c] = "running"
  /\ ~ pcClosed[c]
  /\ ingress' = [ingress EXCEPT ![c] =
                   IF genai_session[c] = "open" THEN "running" ELSE "ended"]
  /\ earlySends' = [earlySends EXCEPT ![c] =
                      IF genai_session[c] = "unset" THEN Note(@, budget.chunks)
                                                   ELSE @]
  /\ UNCHANGED << lifeVars, hasTrack, framerVars, queueVars, closeVars, sdVars,
                  budget, sleeps, tracksAdded, tracksIgnored, serverMessages,
                  textsGot, textsSent >>

(* Lines 109-110, 117-119: recv or the resampler raises; logged, loop ends *)
IngressError(c) ==
  /\ ingress[c] = "running"
  /\ ingress' = [ingress EXCEPT ![c] = "ended"]
  /\ UNCHANGED << histVars, lifeVars, hasTrack, framerVars, queueVars, closeVars, sdVars,
                  budget >>

---------------------------------------------------------------------------
(* SendingTrack, lines 25-33 *)

(* The transport calls recv(): queue.get() is awaited *)
TransportRecvCall(c) ==
  /\ hasTrack[c]
  /\ ~ pcClosed[c]
  /\ ~ recvPending[c]
  /\ recvPending' = [recvPending EXCEPT ![c] = TRUE]
  /\ UNCHANGED << histVars, lifeVars, trackVars, framerVars, queue, produced, delivered,
                  closeVars, sdVars, budget >>

(* queue.get() returns once the queue holds a frame *)
TransportRecvReturn(c) ==
  /\ recvPending[c]
  /\ queue[c] # << >>
  /\ delivered' = [delivered EXCEPT ![c] = Append(@, QueueGet(queue[c]))]
  /\ queue' = [queue EXCEPT ![c] = QueueRest(@)]
  /\ recvPending' = [recvPending EXCEPT ![c] = FALSE]
  /\ UNCHANGED << histVars, lifeVars, trackVars, framerVars, produced, closeVars, sdVars,
                  budget >>

---------------------------------------------------------------------------
(* on_shutdown(), lines 180-184 *)

(* Lines 182-183: one close() coroutine per registered connection, gathered *)
Shutdown ==
  /\ sd = "idle"
  /\ sd' = "gathering"
  /\ sdClose' = [c \in Conns |-> IF c \in connections THEN "scheduled" ELSE "none"]
  /\ UNCHANGED << histVars, lifeVars, trackVars, framerVars, queueVars, closeVars, budget >>

(* A gathered close() starts *)
SdCloseBegin(c) ==
  /\ sdClose[c] = "scheduled"
  /\ \E f \in FaultChoices, res \in {"mid", "done", "raised"} :
       /\ CloseCall(c, f, res)
       /\ sdClose' = [sdClose EXCEPT ![c] = res]
  /\ UNCHANGED << histVars, connections, ho, run, trackVars, framerVars,
                  queueVars, handlers, sd, budget >>

(* A gathered close() goes on after pc.close() *)
SdCloseFinish(c) ==
  /\ sdClose[c] = "mid"
  /\ \E f \in FaultChoices, res \in {"done", "raised"} :
       /\ CloseResume(c, f, res)
       /\ sdClose' = [sdClose EXCEPT ![c] = res]
  /\ UNCHANGED << histVars, connections, ho, run, trackVars, framerVars,
                  queueVars, handlers, sd, budget >>

(* Lines 183-184: every close() returned; the registry is cleared *)
GatherReturn ==
  /\ sd = "gathering"
  /\ \A c \in Conns : sdClose[c] \in {"none", "done"}
  /\ sd' = "done"
  /\ connections' = {}
  /\ UNCHANGED << histVars, ho, run, pcClosed, genai_session, trackVars,
                  framerVars, queueVars, closeVars, sdClose, budget >>

(* Line 183: gather raises the first exception of a close(); line 184 is   *)
(* not reached (the other close() calls keep running)                      *)
GatherRaise ==
  /\ sd = "gathering"
  /\ \E c \in Conns : sdClose[c] = "raised"
  /\ sd' = "raised"
  /\ UNCHANGED << histVars, lifeVars, trackVars, framerVars, queueVars, closeVars,
                  sdClose, budget >>

---------------------------------------------------------------------------
Next ==
  \/ \E c \in Conns : Offer(c)
  \/ \E c \in Conns : CreatePeer(c)
  \/ \E c \in Conns : NegotiateOk(c)
  \/ \E c \in Conns : NegotiateFail(c)
  \/ \E c \in Conns : RunStart(c)
  \/ \E c \in Conns : ConnectOk(c)
  \/ \E c \in Conns : ConnectFail(c)
  \/ \E c \in Conns, resp \in Responses : EgressResponse(c, resp)
  \/ \E c \in Conns : PaceWake(c)
  \/ \E c \in Conns : EgressSessionClosed(c)
  \/ \E c \in Conns : EgressRecvError(c)
  \/ \E c \in Conns : RunCloseFinish(c)
  \/ \E c \in Conns, st \in {"connected", "failed", "closed"} :
       ConnectionStateChange(c, st)
  \/ \E c \in Conns : HandlerCloseFinish(c)
  \/ \E c \in Conns, kind \in {"audio", "video"} : OnTrack(c, kind)
  \/ \E c \in Conns : DataMessage(c)
  \/ \E c \in Conns : IngressFrame(c)
  \/ \E c \in Conns : IngressError(c)
  \/ \E c \in Conns : TransportRecvCall(c)
  \/ \E c \in Conns : TransportRecvReturn(c)
  \/ Shutdown
  \/ \E c \in Conns : SdCloseBegin(c)
  \/ \E c \in Conns : SdCloseFinish(c)
  \/ GatherReturn
  \/ GatherRaise

Spec == Init /\ [][Next]_vars

(* Collaborators whose close() may raise *)
InitFaulty == InitWith(1, FewBytes, MaxFaults)

SpecFaulty == InitFaulty /\ [][Next]_vars

(* Several calls at once, for the registry: every step of the program, in  *)
(* an environment that sends no audio, no track and no state change        *)
InitShutdown == InitWith(NumConns, 0, 0)

NextShutdown ==
  \/ \E c \in Conns : Offer(c)
  \/ \E c \in Conns : CreatePeer(c)
  \/ \E c \in Conns : NegotiateOk(c)
  \/ \E c \in Conns : NegotiateFail(c)
  \/ \E c \in Conns : RunStart(c)
  \/ \E c \in Conns : ConnectOk(c)
  \/ \E c \in Conns : ConnectFail(c)
  \/ \E c \in Conns : EgressSessionClosed(c)
  \/ \E c \in Conns : EgressRecvError(c)
  \/ \E c \in Conns : RunCloseFinish(c)
  \/ Shutdown
  \/ \E c \in Conns : SdCloseBegin(c)
  \/ \E c \in Conns : SdCloseFinish(c)
  \/ GatherReturn
  \/ GatherRaise

SpecShutdown == InitShutdown /\ [][NextShutdown]_vars

(* The steps that are the continuation of a task: the asyncio loop runs    *)
(* every ready task, a sleep ends, a collaborator's close() returns, and   *)
(* receiving from a closed session raises                                  *)
Fairness ==
  \A c \in Conns :
    /\ WF_vars(RunStart(c))
    /\ WF_vars(PaceWake(c))
    /\ WF_vars(EgressSessionClosed(c))
    /\ WF_vars(RunCloseFinish(c))
    /\ WF_vars(HandlerCloseFinish(c))
    /\ WF_vars(SdCloseBegin(c))
    /\ WF_vars(SdCloseFinish(c))

(* One call, under fair scheduling of its tasks *)
InitFair == InitWith(1, FewBytes, 0)

FairSpec == InitFair /\ [][Next]_vars /\ Fairness

(* One call; the tracks that arrive after one was taken are counted *)
InitTracks == InitWatch(1, FewBytes, 0, MaxTracks, 0, 0, 0)

SpecTracks == InitTracks /\ [][Next]_vars

(* One call; the responses without audio are counted *)
InitMessages == InitWatch(1, FewBytes, 0, 0, MaxMessages, 0, 0)

SpecMessages == InitMessages /\ [][Next]_vars

(* One call; the data-channel messages are counted *)
InitTexts == InitWatch(1, FewBytes, 0, 0, 0, MaxTexts, 0)

SpecTexts == InitTexts /\ [][Next]_vars

(* One call; the chunks run_recv_track holds before a session is set are   *)
(* counted                                                                 *)
InitChunks == InitWatch(1, FewBytes, 0, 0, 0, 0, MaxChunks)

SpecChunks == InitChunks /\ [][Next]_vars

(* The framer fed one response: audio/pcm;rate=24000 with 1920 bytes *)
ScenarioResponse == [audio |-> TRUE, rate |-> 24000, len |-> 1920]

InitScenario == InitWith(1, ScenarioResponse.len, 0)

NextScenario ==
  \/ \E c \in Conns : Offer(c)
  \/ \E c \in Conns : CreatePeer(c)
  \/ \E c \in Conns : NegotiateOk(c)
  \/ \E c \in Conns : RunStart(c)
  \/ \E c \in Conns : ConnectOk(c)
  \/ \E c \in Conns : EgressResponse(c, ScenarioResponse)
  \/ \E c \in Conns : PaceWake(c)
  \/ \E c \in Conns : EgressSessionClosed(c)
  \/ \E c \in Conns : RunCloseFinish(c)
  \/ \E c \in Conns, st \in {"connected", "failed", "closed"} :
       ConnectionStateChange(c, st)
  \/ \E c \in Conns : HandlerCloseFinish(c)
  \/ \E c \in Conns, kind \in {"audio", "video"} : OnTrack(c, kind)
  \/ \E c \in Conns : TransportRecvCall(c)
  \/ \E c \in Conns : TransportRecvReturn(c)

SpecScenario == InitScenario /\ [][NextScenario]_vars

---------------------------------------------------------------------------
(* Lifecycle states of the specification, read off the program state *)

Active(c) == genai_session[c] = "open" /\ run[c] \in {"receiving", "pacing"}
CloseInvoked(c) ==
  \/ closeLog[c] # {}
  \/ handlers[c] > 0
  \/ run[c] = "closing"
  \/ sdClose[c] = "mid"
Closed(c) ==
  /\ pcClosed[c]
  /\ genai_session[c] = "closed"
  /\ c \notin connections
RunEnded(c) == run[c] \in {"done", "raised"}
(* A call of close() on the connection has returned *)
CloseCompleted(c) == \E r \in closeLog[c] : ~ CloseRaised(r)

---------------------------------------------------------------------------
(* C1: close() completes without raising whatever the lifecycle state it   *)
(* is called in, Negotiating (the transport session exists, the AI session *)
(* is not open yet) included: no close() call made once the transport      *)
(* session exists has raised (collaborators that close cleanly).           *)
C1_CloseNeverRaises ==
  \A c \in Conns : \A r \in closeLog[c] : r.pc # "skipped" => ~ CloseRaised(r)

(* C2: close() is idempotent: a second or later call does not raise, and   *)
(* once any call has returned, the connection stays in the terminal state  *)
(* of a single call (transport closed, session closed).                    *)
C2_CloseIdempotent ==
  \A c \in Conns :
    /\ \A r \in closeLog[c] : ~ r.first => ~ CloseRaised(r)
    /\ (\E r \in closeLog[c] : ~ CloseRaised(r)) =>
         (PcSet(c) => pcClosed[c]) /\ genai_session[c] = "closed"

(* C3: close() is best-effort: in a call where closing the transport       *)
(* failed, closing the AI session (when one is open) was still attempted,  *)
(* and the other way round.                                                *)
C3_CloseBestEffort ==
  \A c \in Conns : \A r \in closeLog[c] :
    /\ (r.pc = "failed" /\ r.open) => r.sess \in {"ok", "failed"}
    /\ r.sess = "failed" => r.pc \in {"ok", "failed", "skipped"}

(* The transport has reported "failed" or "closed" on an Active connection: *)
(* the handler is inside close()                                           *)
FailedWhileActive(c) == Active(c) /\ handlers[c] > 0

(* C4: once the state-change handler has called close() on an Active       *)
(* connection (the transport reported "failed" or "closed"), the           *)
(* connection eventually is Closed: transport closed, session closed,      *)
(* removed from the registry, _run ended.                                  *)
C4_FailedLeadsToClosed ==
  \A c \in Conns : FailedWhileActive(c) ~> (Closed(c) /\ run[c] = "done")

C4_Witness ==
  \E c \in Conns : FailedWhileActive(c) /\ run[c] = "pacing" /\ sd = "idle"

(* C5: when _run has ended (after a failure opening the session or         *)
(* reading from it), close() has been called and the connection is no      *)
(* longer in the registry.                                                 *)
C5_RunEndUnregisters ==
  \A c \in Conns : RunEnded(c) => CloseInvoked(c) /\ c \notin connections

(* C6: an error that ends the ingress pipeline of a negotiated connection   *)
(* leads to close() being called on the connection.                        *)
C6_IngressErrorCloses ==
  \A c \in Conns :
    (ingress[c] = "ended" /\ ho[c] = "answered") ~> CloseInvoked(c)

(* C7: after negotiation has failed in handle_offer, no AI session is      *)
(* opened and no pipeline runs for the connection.                         *)
C7_FailedNeverActive ==
  \A c \in Conns :
    ho[c] = "failed" =>
      /\ genai_session[c] = "unset"
      /\ run[c] \notin {"receiving", "pacing"}
      /\ ingress[c] # "running"

(* C8: when on_shutdown has finished, close() has been called and awaited  *)
(* for every connection that was registered, and the registry is empty.    *)
C8_ShutdownClearsRegistry ==
  sd \in {"done", "raised"} =>
    /\ connections = {}
    /\ \A c \in Conns : sdClose[c] \in {"none", "done", "raised"}

(* C9: the frames recv() has returned, followed by the frames still        *)
(* queued, are exactly the frames put, in the order put: what recv()       *)
(* returns is a prefix of what was put, nothing dropped, nothing returned  *)
(* that was not put.                                                       *)
C9_QueueFifo ==
  \A c \in Conns : delivered[c] \o queue[c] = produced[c]

C9_Witness ==
  \E c \in Conns :
    /\ Len(delivered[c]) >= 1
    /\ Len(queue[c]) >= 1
    /\ recvPending[c]

(* C10: each produced frame's timestamp exceeds the previous frame's by    *)
(* exactly the frame's sample count, int(rate * 0.02).                     *)
C10_TimestampBySamples ==
  \A c \in Conns : \A i \in 2 .. Len(produced[c]) :
    produced[c][i].pts - produced[c][i - 1].pts
      = PTIME_DEN * produced[c][i].samples

(* C11: fed the one response of the scenario, the framer puts exactly two  *)
(* frames of 480 samples, the first stamped 0 (the initial value of the    *)
(* timestamp counter) and the second 480.                                  *)
C11_ScenarioFrames ==
  \A c \in Conns :
    /\ Len(produced[c]) <= 2
    /\ \A i \in 1 .. Len(produced[c]) :
         /\ produced[c][i].samples = 480
         /\ produced[c][i].pts = PTIME_DEN * 480 * (i - 1)
    /\ (run[c] = "receiving" /\ budget.bytes = 0) => Len(produced[c]) = 2

(* C12: whenever run_send_track is back at waiting for the next response,  *)
(* having processed an audio response, the buffer holds fewer bytes than   *)
(* one frame at the rate that response declared.                           *)
C12_AccumulatorBelowFrame ==
  \A c \in Conns :
    (run[c] = "receiving" /\ sample_rate[c] # 0) =>
      buffer[c] < SAMPLE_BYTES * SamplesPerFrame(sample_rate[c])

(* An odd byte is left, under a rate other than that of the last frame *)
C12_Witness ==
  \E c \in Conns :
    /\ run[c] = "receiving"
    /\ buffer[c] = 1
    /\ produced[c] # << >>
    /\ produced[c][Len(produced[c])].rate # sample_rate[c]

(* C13: on one connection on_track binds a track, adds the outbound track  *)
(* and starts run_recv_track at most once, for the first audio track; a    *)
(* track that arrives later changes nothing.                               *)
C13_SingleTrack ==
  /\ [](\A c \in Conns :
         /\ tracksAdded[c] <= 1
         /\ hasTrack[c] <=> tracksAdded[c] = 1
         /\ ingress[c] # "none" => tracksAdded[c] = 1)
  /\ [][\A c \in Conns :
         tracksIgnored'[c] # tracksIgnored[c] =>
           /\ hasTrack'[c] = hasTrack[c]
           /\ ingress'[c] = ingress[c]
           /\ tracksAdded'[c] = tracksAdded[c]]_vars

(* Tracks have arrived after the first audio track was taken *)
C13_Witness ==
  \E c \in Conns :
    /\ tracksAdded[c] = 1
    /\ tracksIgnored[c] >= 2
    /\ ingress[c] = "running"
    /\ sd = "idle"

(* C14: frames are put on the outbound queue one at a time, and between    *)
(* two puts a whole pacing sleep has passed: N frames put means at least   *)
(* N - 1 sleeps returned.                                                  *)
C14_PacedPuts ==
  /\ [](\A c \in Conns : Len(produced[c]) <= sleeps[c] + 1)
  /\ [][\A c \in Conns : Len(produced'[c]) <= Len(produced[c]) + 1]_vars

(* A second frame has been put, one sleep after the first, out of bytes    *)
(* that had all arrived before the first was put                           *)
C14_Witness ==
  \E c \in Conns :
    /\ Len(produced[c]) = 2
    /\ sleeps[c] = 1
    /\ run[c] = "pacing"
    /\ budget.bytes = 0

(* C15: once close() has been called, a pacing sleep in progress is not    *)
(* followed by a further frame: run_send_track puts nothing more.          *)
C15_CloseStopsPacing ==
  [][\A c \in Conns :
       (CloseInvoked(c) /\ run[c] = "pacing") => produced'[c] = produced[c]]_vars

(* C16: a response without audio puts no frame, leaves the buffer and the  *)
(* timestamp as they were, raises nothing, and leaves run_send_track       *)
(* waiting for the next response of the open session.                      *)
C16_ServerMessageSkipped ==
  [][\A c \in Conns :
       serverMessages'[c] # serverMessages[c] =>
         /\ buffer'[c] = buffer[c]
         /\ timestamp'[c] = timestamp[c]
         /\ produced'[c] = produced[c]
         /\ queue'[c] = queue[c]
         /\ run'[c] = "receiving"
         /\ genai_session'[c] = "open"]_vars

(* Responses without audio have come, and bytes are held in the buffer *)
C16_Witness ==
  \E c \in Conns :
    /\ serverMessages[c] >= 2
    /\ buffer[c] > 0
    /\ run[c] = "receiving"
    /\ sd = "idle"

(* C17: every data-channel message on_message was called with has been     *)
(* passed to the AI session's send, once; none was dropped by an error,    *)
(* before the session is open either.                                      *)
C17_TextsForwarded ==
  \A c \in Conns : textsSent[c] = textsGot[c]

(* C18: run_recv_track never has a chunk to send while no AI session is    *)
(* set on the connection.                                                  *)
C18_NoEarlySend ==
  \A c \in Conns : earlySends[c] = 0

(* C19: whenever run_send_track cuts a frame (the timestamp advances), the  *)
(* outbound track and its queue exist.                                     *)
C19_TrackWhenFrame ==
  [][\A c \in Conns : timestamp'[c] > timestamp[c] => hasTrack[c]]_vars

(* C20: once a call of close() on the connection has returned, no frame is *)
(* put on its outbound queue any more.                                     *)
C20_NothingAfterClose ==
  [][\A c \in Conns : CloseCompleted(c) => produced'[c] = produced[c]]_vars

===========================================================================
